---- MODULE Spec2Model ----
(***************************************************************************)
(* Model of src/app.py: the solid-archive builder (compress_ultimate), the *)
(* lister (list_archive_contents) and the selective extractor              *)
(* (extract_selected_files).                                               *)
(*                                                                         *)
(* Abstractions.  A file content is a sequence of bytes.  SHA-256 is       *)
(* modelled as an injective encoding of the content (no collisions).  The  *)
(* xz stream is modelled by what it carries: the tar record stream written *)
(* into it and whether the tar end-of-archive blocks were written.  Time   *)
(* is counted in ticks of 0.1 s and only the time since last_update_time   *)
(* is kept.  tarfile and lzma are modelled by their observable behaviour   *)
(* at the call sites of app.py.                                            *)
(***************************************************************************)
EXTENDS Integers, Sequences, FiniteSets, TLC

\* ------------------------------------------------------------------ bounds
\* longest file content, in bytes
MaxLen == 2
\* length of the sort prefix read by process_file_metadata; the program reads
\* 16 bytes, scaled here so that contents longer than the prefix occur
HeaderLen == 1
\* bytes per read of tarfile.copyfileobj (16 KiB in the library), scaled
BufSize == 1
\* largest number of clock ticks that pass between two reads
MaxTick == 2
\* minimum interval between two progress updates: 0.1 s = 1 tick
Interval == 1

Names == {"a.txt", "b.txt", "c.bin"}
Bytes == {0, 1}
\* no file under a name (kept apart from every content)
Missing == <<0 - 1>>
None == "none"
\* no file at a path of an archive
NoFile == [exists |-> FALSE]

Contents == UNION {[1..k -> Bytes] : k \in 0..MaxLen}

Min(a, b) == IF a < b THEN a ELSE b

Front(s) == SubSeq(s, 1, Len(s) - 1)

Range(s) == {s[i] : i \in DOMAIN s}

\* lists of distinct names: what the multiselect widget hands over
NameLists == {s \in UNION {[1..k -> Names] : k \in 0..Cardinality(Names)} :
                \A i, j \in DOMAIN s : i # j => s[i] # s[j]}

\* ------------------------------------------------------------- constants
MAGIC_NUMBER == <<"M", "Y", "C", "P", "_", "U", "L", "T">>

\* an older container signature and a foreign one, both 8 bytes long
OLD_MAGIC == <<"M", "Y", "C", "P", "_", "V", "1", "2">>
FOREIGN_MAGIC == <<"P", "K", "3", "4", "0", "0", "0", "0">>
Signatures == {MAGIC_NUMBER, OLD_MAGIC, FOREIGN_MAGIC}

\* ------------------------------------------------------------------ state
VARIABLES
  disk,             \* DIR_INPUT_RAW: name -> content, or Missing
  selected,         \* selected_file_names, in order of presentation
  pc,               \* position of compress_ultimate
  unreadable,       \* the sources whose open/read raised during the scan
  sorted_files,     \* the planned order
  total_bytes_all,
  idx,              \* index in sorted_files of the next entry to write
  cur,              \* <<bytes read so far>> of the open ProgressFileObject, or <<>>
  seen_hashes,      \* set of <<hash, canonical name>>
  output,           \* the file at output_path, or Missing
  processed_bytes,
  idle,             \* ticks since last_update_time, capped at Interval + 1
  status,           \* what status_area shows: the last update
  n_final,          \* number of "Status: 100.0% - Finished!" updates
  n_cb100,          \* number of progress_callback updates showing 100.0%
  archive,          \* the file in DIR_INPUT_COMPRESSED, or Missing
  extracted,        \* DIR_EXTRACTED: name -> content, or Missing
  lastOp            \* the last list/extract call: its input and its result

vars == <<disk, selected, pc, unreadable, sorted_files, total_bytes_all, idx, cur,
          seen_hashes, output, processed_bytes, idle, status, n_final, n_cb100,
          archive, extracted, lastOp>>

buildVars == <<pc, unreadable, sorted_files, total_bytes_all, idx, cur, seen_hashes,
               output, processed_bytes, idle, status, n_final, n_cb100>>

readVars == <<archive, extracted, lastOp>>

\* ---------------------------------------------------------------- scanner
Radix == Cardinality(Bytes) + 1

\* hashlib.sha256 of the content: injective on Contents
RECURSIVE Sha256(_)
Sha256(c) == IF c = <<>> THEN 0 ELSE Sha256(Front(c)) * Radix + c[Len(c)] + 1

\* os.path.splitext(fname)[1]
SplitExt(fname) == IF fname = "c.bin" THEN ".bin" ELSE ".txt"

\* process_file_metadata for a source that can be opened and read
process_file_metadata(fname) ==
  IF disk[fname] = Missing THEN [name |-> None]
  ELSE [name |-> fname,
        size |-> Len(disk[fname]),
        ext |-> SplitExt(fname),
        hash |-> Sha256(disk[fname]),
        header |-> SubSeq(disk[fname], 1, Min(HeaderLen, Len(disk[fname])))]

\* ---------------------------------------------------------------- planner
\* bytes < bytes in Python: lexicographic, a proper prefix is smaller
RECURSIVE BytesLess(_, _)
BytesLess(a, b) ==
  IF b = <<>> THEN FALSE
  ELSE IF a = <<>> THEN TRUE
  ELSE IF a[1] # b[1] THEN a[1] < b[1]
  ELSE BytesLess(Tail(a), Tail(b))

\* str < str on the extensions that occur
ExtOrd(e) == IF e = ".bin" THEN 1 ELSE 2

\* the sort key of line 126 compared as Python compares tuples
KeyLess(x, y) ==
  IF x.header # y.header THEN BytesLess(x.header, y.header)
  ELSE IF x.ext # y.ext THEN ExtOrd(x.ext) < ExtOrd(y.ext)
  ELSE x.size < y.size

\* a sort that is not stable: x goes before the first element not smaller
RECURSIVE InsertSortedUnstable(_, _)
InsertSortedUnstable(s, x) ==
  IF s = <<>> THEN <<x>>
  ELSE IF ~KeyLess(s[1], x) THEN <<x>> \o s
  ELSE <<s[1]>> \o InsertSortedUnstable(Tail(s), x)

\* one step of a stable sort: x goes before the first element greater than it
RECURSIVE InsertSorted(_, _)
InsertSorted(s, x) ==
  IF s = <<>> THEN <<x>>
  ELSE IF KeyLess(x, s[1]) THEN <<x>> \o s
  ELSE <<s[1]>> \o InsertSorted(Tail(s), x)

\* sorted(file_meta, key=...): stable
RECURSIVE Sorted(_)
Sorted(s) == IF s = <<>> THEN <<>> ELSE InsertSorted(Sorted(Front(s)), s[Len(s)])

\* the results of executor.map that are not None, in order
RECURSIVE FileMeta(_)
FileMeta(sel) ==
  IF sel = <<>> THEN <<>>
  ELSE LET res == process_file_metadata(sel[Len(sel)])
       IN IF res.name = None THEN FileMeta(Front(sel))
          ELSE Append(FileMeta(Front(sel)), res)

RECURSIVE SumSizes(_)
SumSizes(s) == IF s = <<>> THEN 0 ELSE s[1].size + SumSizes(Tail(s))

\* ----------------------------------------------------------------- status
StatusInit == [kind |-> "init", pct |-> 0]
StatusStarting == [kind |-> "starting", pct |-> 0]
StatusFinished == [kind |-> "finished", pct |-> 1000]
\* the error path reporting through the final status line
StatusErrorAsFinished == [kind |-> "finished", pct |-> 1000]
StatusError == [kind |-> "error", pct |-> 0]

\* the tenths of a percent that f"{pct:.1f}" shows
PctTenths(p, t) == (p * 2000 + t) \div (2 * t)

StatusProgress(p, t) == [kind |-> "progress", pct |-> PctTenths(p, t)]

\* ----------------------------------------------------------------- writer
\* A source of the selection that exists but cannot be opened or read: the
\* exception of process_file_metadata leaves executor.map at line 115 and is
\* caught at line 188.
ScanRaises(bad) ==
  /\ pc = "idle"
  /\ bad \in Range(selected)
  /\ disk[bad] # Missing
  /\ unreadable' = {bad}
  /\ status' = StatusError
  /\ pc' = "failed"
  /\ UNCHANGED <<disk, selected, sorted_files, total_bytes_all, idx, cur, seen_hashes,
                 output, processed_bytes, idle, n_final, n_cb100>>
  /\ UNCHANGED readVars

\* compress_ultimate from its call to the head of the write loop: scan, sort,
\* open output_path, write the magic, open the xz and tar streams.
StartCompress ==
  /\ pc = "idle"
  /\ sorted_files' = Sorted(FileMeta(selected))
  /\ total_bytes_all' = SumSizes(FileMeta(selected))
  /\ processed_bytes' = 0
  /\ idle' = Interval + 1
  /\ status' = StatusStarting
  /\ output' = [exists |-> TRUE, magic |-> MAGIC_NUMBER, records |-> <<>>,
                closed |-> FALSE]
  /\ seen_hashes' = {}
  /\ idx' = 1
  /\ cur' = <<>>
  /\ pc' = "write"
  /\ UNCHANGED <<disk, selected, unreadable, n_final, n_cb100>>
  /\ UNCHANGED readVars

Item == sorted_files[idx]

Seen(h) == \E p \in seen_hashes : p[1] = h

\* the link target taken from the entry written last, not from seen_hashes
CanonicalNamePrevious(h) == sorted_files[idx - 1].name

CanonicalName(h) == (CHOOSE p \in seen_hashes : p[1] = h)[2]

LinkRecord(item) ==
  [name |-> item.name, kind |-> "Link", size |-> 0,
   linkname |-> CanonicalName(item.hash), payload |-> <<>>]

DataRecord(item) ==
  [name |-> item.name, kind |-> "Data", size |-> item.size,
   linkname |-> "", payload |-> <<>>]

IsDuplicate(item) == Seen(item.hash)

\* lines 164-170: a duplicate is written as a hard link to the canonical name
WriteLink ==
  /\ pc = "write"
  /\ cur = <<>>
  /\ idx <= Len(sorted_files)
  /\ IsDuplicate(Item)
  /\ output' = [output EXCEPT !.records = Append(@, LinkRecord(Item))]
  /\ idx' = idx + 1
  /\ UNCHANGED <<disk, selected, pc, unreadable, sorted_files, total_bytes_all, cur,
                 seen_hashes, processed_bytes, idle, status, n_final, n_cb100>>
  /\ UNCHANGED readVars

\* lines 172-180 up to the first read: register the hash, open the source,
\* write the header.  A source of size 0 is copied without any read.
BeginData ==
  /\ pc = "write"
  /\ cur = <<>>
  /\ idx <= Len(sorted_files)
  /\ ~IsDuplicate(Item)
  /\ seen_hashes' = seen_hashes \cup {<<Item.hash, Item.name>>}
  /\ output' = [output EXCEPT !.records = Append(@, DataRecord(Item))]
  /\ IF Item.size = 0
       THEN cur' = <<>> /\ idx' = idx + 1
       ELSE cur' = <<0>> /\ idx' = idx
  /\ UNCHANGED <<disk, selected, pc, unreadable, sorted_files, total_bytes_all,
                 processed_bytes, idle, status, n_final, n_cb100>>
  /\ UNCHANGED readVars

\* line 178 raising: the source cannot be opened any more
OpenFails ==
  /\ pc = "write"
  /\ cur = <<>>
  /\ idx <= Len(sorted_files)
  /\ ~IsDuplicate(Item)
  /\ seen_hashes' = seen_hashes \cup {<<Item.hash, Item.name>>}
  /\ status' = StatusError
  /\ pc' = "failed"
  /\ UNCHANGED <<disk, selected, unreadable, sorted_files, total_bytes_all, idx, cur,
                 output, processed_bytes, idle, n_final, n_cb100>>
  /\ UNCHANGED readVars

\* the chunk put in front of what was copied before
AppendPayloadInFront(records, data) ==
  [records EXCEPT ![Len(records)].payload = data \o @]

AppendPayload(records, data) ==
  [records EXCEPT ![Len(records)].payload = @ \o data]

\* progress_callback called d ticks after its previous call: whether
\* current_time - last_update_time > 0.1 (line 147)
ProgressUpdates(d) ==
  Min(idle + d, Interval + 1) > Interval

\* One read of tarfile.copyfileobj through ProgressFileObject.read, d ticks
\* after the previous one; the read that completes the payload closes the source.
ReadChunk(d) ==
  /\ pc = "write"
  /\ cur # <<>>
  /\ LET n == Min(BufSize, Item.size - cur[1])
         data == SubSeq(disk[Item.name], cur[1] + 1, cur[1] + n)
         processed == processed_bytes + n
     IN /\ output' = [output EXCEPT !.records = AppendPayload(@, data)]
        /\ processed_bytes' = processed
        /\ IF ProgressUpdates(d)
             THEN /\ idle' = 0
                  /\ IF total_bytes_all > 0
                       THEN /\ status' = StatusProgress(processed, total_bytes_all)
                            /\ n_cb100' = n_cb100 +
                                 (IF PctTenths(processed, total_bytes_all) = 1000
                                    THEN 1 ELSE 0)
                       ELSE UNCHANGED <<status, n_cb100>>
             ELSE /\ idle' = Min(idle + d, Interval + 1)
                  /\ UNCHANGED <<status, n_cb100>>
        /\ IF cur[1] + n = Item.size
             THEN cur' = <<>> /\ idx' = idx + 1
             ELSE cur' = <<cur[1] + n>> /\ idx' = idx
  /\ UNCHANGED <<disk, selected, pc, unreadable, sorted_files, total_bytes_all,
                 seen_hashes, n_final>>
  /\ UNCHANGED readVars

\* a read of the source raising inside tar.addfile: the source is closed
\* (line 182) and the exception is caught at line 188
ReadFails ==
  /\ pc = "write"
  /\ cur # <<>>
  /\ cur' = <<>>
  /\ status' = StatusError
  /\ pc' = "failed"
  /\ UNCHANGED <<disk, selected, unreadable, sorted_files, total_bytes_all, idx,
                 seen_hashes, output, processed_bytes, idle, n_final, n_cb100>>
  /\ UNCHANGED readVars

\* the write loop is over: the tar and xz streams and the file are closed,
\* lines 184-186; last_update_time, a local of the call, is gone
Finish ==
  /\ pc = "write"
  /\ cur = <<>>
  /\ idx > Len(sorted_files)
  /\ output' = [output EXCEPT !.closed = TRUE]
  /\ status' = StatusFinished
  /\ n_final' = n_final + 1
  /\ idle' = Interval + 1
  /\ pc' = "done"
  /\ UNCHANGED <<disk, selected, unreadable, sorted_files, total_bytes_all, idx, cur,
                 seen_hashes, processed_bytes, n_cb100>>
  /\ UNCHANGED readVars

\* ----------------------------------------------------------------- reader
EmptyDir == [n \in Names |-> Missing]

\* An archive file: its first len(MAGIC_NUMBER) bytes and what follows them.
\* wellformed: the bytes after the signature are an xz stream.
ArchiveFile(magic, wellformed, records, closed) ==
  [exists |-> TRUE, magic |-> magic, wellformed |-> wellformed,
   records |-> records, closed |-> closed]

Truncated(r) == r.kind = "Data" /\ Len(r.payload) < r.size

\* lzma.open + tarfile.open + tar.getmembers on the bytes after the
\* signature: the error raised, or "" when the record stream can be walked
ParseError(f) ==
  IF ~f.wellformed THEN "lzma"
  ELSE IF f.records = <<>> /\ ~f.closed THEN "empty file"
  ELSE IF \E i \in DOMAIN f.records : Truncated(f.records[i])
    THEN "unexpected end of data"
  ELSE ""

\* magic.startswith(b'MYCP'), line 201
RecognizedMagic(magic) == Len(magic) >= 4 /\ SubSeq(magic, 1, 4) = <<"M", "Y", "C", "P">>

OpResult(op, targets, ok, msg, names, count, parsed) ==
  [op |-> op, targets |-> targets, ok |-> ok, msg |-> msg, names |-> names,
   count |-> count, parsed |-> parsed]

RECURSIVE MemberNames(_)
MemberNames(records) ==
  IF records = <<>> THEN <<>> ELSE <<records[1].name>> \o MemberNames(Tail(records))

\* list_archive_contents(file_path), lines 195-210
list_archive_contents(f) ==
  IF ~RecognizedMagic(f.magic)
    THEN OpResult("list", {}, FALSE, "Invalid File Format", <<>>, 0, FALSE)
  ELSE IF ParseError(f) # ""
    THEN OpResult("list", {}, FALSE, ParseError(f), <<>>, 0, TRUE)
  ELSE OpResult("list", {}, TRUE, "Success", MemberNames(f.records), 0, TRUE)

\* tar._find_link_target: the last member before position i named linkname
LinkTargetIndex(records, i) ==
  LET c == {j \in 1..(i - 1) : records[j].name = records[i].linkname}
  IN IF c = {} THEN 0 ELSE CHOOSE j \in c : \A k \in c : k <= j

\* a link whose target is not on disk materialized as an empty file
MemberBytesNoFallback(records, i) ==
  IF records[i].kind = "Data" THEN records[i].payload ELSE <<>>

\* the bytes tar._extract_member writes for member i at a path of its own
RECURSIVE MemberBytes(_, _)
MemberBytes(records, i) ==
  IF records[i].kind = "Data" THEN records[i].payload
  ELSE IF LinkTargetIndex(records, i) = 0 THEN Missing
  ELSE MemberBytes(records, LinkTargetIndex(records, i))

\* tar.makelink / tar.makefile for member i into directory dir
ExtractMember(dir, records, i) ==
  LET m == records[i]
  IN IF m.kind = "Data" THEN [dir EXCEPT ![m.name] = m.payload]
     ELSE IF m.linkname \in Names /\ dir[m.linkname] # Missing
       THEN [dir EXCEPT ![m.name] = dir[m.linkname]]
     ELSE [dir EXCEPT ![m.name] = MemberBytes(records, i)]

\* tar.extractall(path=DIR_EXTRACTED, members=members): the members at the
\* positions idxs, in archive order
RECURSIVE ExtractAll(_, _, _)
ExtractAll(dir, records, idxs) ==
  IF idxs = {} THEN dir
  ELSE LET i == CHOOSE k \in idxs : \A l \in idxs : k <= l
       IN ExtractAll(ExtractMember(dir, records, i), records, idxs \ {i})

\* line 227: the members whose name is in targets
MatchingMembers(records, targets) == {i \in DOMAIN records : records[i].name \in targets}

\* a request refused as soon as one of its names is no member
ExtractResultStrict(f, targets) ==
  IF ParseError(f) # ""
    THEN OpResult("extract", targets, FALSE, "Extraction Error", <<>>, 0, TRUE)
  ELSE IF targets \ {f.records[i].name : i \in DOMAIN f.records} # {}
            \/ MatchingMembers(f.records, targets) = {}
    THEN OpResult("extract", targets, FALSE, "No matching files found.", <<>>, 0, TRUE)
  ELSE OpResult("extract", targets, TRUE, "Extracted",  <<>>,
                Cardinality(MatchingMembers(f.records, targets)), TRUE)

\* extract_selected_files(file_path, targets), lines 212-235: the result
ExtractResult(f, targets) ==
  IF ParseError(f) # ""
    THEN OpResult("extract", targets, FALSE, "Extraction Error", <<>>, 0, TRUE)
  ELSE IF MatchingMembers(f.records, targets) = {}
    THEN OpResult("extract", targets, FALSE, "No matching files found.", <<>>, 0, TRUE)
  ELSE OpResult("extract", targets, TRUE, "Extracted",  <<>>,
                Cardinality(MatchingMembers(f.records, targets)), TRUE)

\* the extraction without clear_extracted_folder
ExtractedDirNotCleared(f, targets) ==
  IF ParseError(f) # "" THEN extracted
  ELSE ExtractAll(extracted, f.records, MatchingMembers(f.records, targets))

\* extract_selected_files: what DIR_EXTRACTED holds afterwards
ExtractedDir(f, targets) ==
  IF ParseError(f) # "" THEN EmptyDir
  ELSE ExtractAll(EmptyDir, f.records, MatchingMembers(f.records, targets))

\* A run inspects one archive with one call: an earlier extraction may have
\* left its output, one archive is loaded after a build that returned its
\* path, and list_archive_contents or extract_selected_files is called once.

\* what an earlier extraction left in DIR_EXTRACTED
StaleDir == [n \in Names |-> <<1, 1>>]

\* init_directories keeps an existing DIR_EXTRACTED and what it holds
\* (os.makedirs(d, exist_ok=True), line 32)
EarlierOutput ==
  /\ pc = "done"
  /\ archive = NoFile
  /\ extracted = EmptyDir
  /\ extracted' = StaleDir
  /\ UNCHANGED <<archive, lastOp, disk, selected>>
  /\ UNCHANGED buildVars

\* line 311-312: the archive just built is copied to DIR_INPUT_COMPRESSED
CopyToDecompress ==
  /\ pc = "done"
  /\ archive = NoFile
  /\ archive' = ArchiveFile(output.magic, TRUE, output.records, output.closed)
  /\ UNCHANGED <<extracted, lastOp, disk, selected>>
  /\ UNCHANGED buildVars

\* lines 323-327: any file can be uploaded; here a file with signature sig
\* followed by the body of the archive just built, or by bytes that are no
\* xz stream
Upload(sig, wellformed) ==
  /\ pc = "done"
  /\ archive = NoFile
  /\ wellformed \/ sig = MAGIC_NUMBER
  /\ archive' = ArchiveFile(sig, wellformed,
                            IF wellformed THEN output.records ELSE <<>>,
                            wellformed /\ output.closed)
  /\ UNCHANGED <<extracted, lastOp, disk, selected>>
  /\ UNCHANGED buildVars

\* lines 335-337
ListArchive ==
  /\ archive # NoFile
  /\ lastOp.op = None
  /\ lastOp' = list_archive_contents(archive)
  /\ UNCHANGED <<archive, extracted, disk, selected>>
  /\ UNCHANGED buildVars

\* lines 354-357
Extract(targets) ==
  /\ archive # NoFile
  /\ lastOp.op = None
  /\ lastOp' = ExtractResult(archive, targets)
  /\ extracted' = ExtractedDir(archive, targets)
  /\ UNCHANGED <<archive, disk, selected>>
  /\ UNCHANGED buildVars

\* ------------------------------------------------------------------- init
\* The sources not selected play no part in a build and are left out of the
\* input directory; a selected source may have vanished from it.
Init ==
  /\ selected \in NameLists
  /\ disk \in [Names -> Contents \cup {Missing}]
  /\ \A n \in Names \ Range(selected) : disk[n] = Missing
  /\ pc = "idle"
  /\ unreadable = {}
  /\ sorted_files = <<>>
  /\ total_bytes_all = 0
  /\ idx = 1
  /\ cur = <<>>
  /\ seen_hashes = {}
  /\ output = NoFile
  /\ processed_bytes = 0
  /\ idle = Interval + 1
  /\ status = StatusInit
  /\ n_final = 0
  /\ n_cb100 = 0
  /\ archive = NoFile
  /\ extracted = [n \in Names |-> Missing]
  /\ lastOp = OpResult(None, {}, FALSE, "", <<>>, 0, FALSE)

NextBuild ==
  \/ \E bad \in Names : ScanRaises(bad)
  \/ StartCompress
  \/ WriteLink
  \/ BeginData
  \/ OpenFails
  \/ \E d \in 0..MaxTick : ReadChunk(d)
  \/ ReadFails
  \/ Finish

NextRead ==
  \/ EarlierOutput
  \/ CopyToDecompress
  \/ \E sig \in Signatures, wf \in BOOLEAN : Upload(sig, wf)
  \/ ListArchive
  \/ \E targets \in SUBSET Names : Extract(targets)

Next == NextBuild \/ NextRead

Spec == Init /\ [][Next]_vars

SpecBuild == Init /\ [][NextBuild]_vars

\* ================================================================= claims
\* the sources of the selection that exist: the input files of the build
InputFiles == {n \in Range(selected) : disk[n] # Missing}

Pos(seq, n) == CHOOSE i \in DOMAIN seq : seq[i] = n

RecordNames(f) == {f.records[i].name : i \in DOMAIN f.records}

Links(f) == {i \in DOMAIN f.records : f.records[i].kind = "Link"}

\* the archive under inspection is a container this system built
BuiltContainer ==
  archive.exists /\ archive.magic = MAGIC_NUMBER /\ archive.wellformed /\ archive.closed

\* ------------------------------------------------------------------- C2
\* C2: at every point of the write loop the i-th record written is the i-th
\* planned entry; it is a Data record registered as canonical iff no earlier
\* entry has its hash, and otherwise a zero-payload Link whose target is an
\* earlier Data record of the same hash; a finished build holds, for each
\* hash, exactly one Data record carrying the content and k-1 Links.
C2_DedupInvariant ==
  output.exists =>
    LET recs == output.records
        sf == sorted_files
        SameHash(i) == {j \in DOMAIN sf : sf[j].hash = sf[i].hash}
    IN /\ Len(recs) <= Len(sf)
       /\ \A i \in DOMAIN recs :
            /\ recs[i].name = sf[i].name
            /\ recs[i].kind = "Data" <=> (\A j \in 1..(i - 1) : sf[j].hash # sf[i].hash)
            /\ recs[i].kind = "Data" => <<sf[i].hash, sf[i].name>> \in seen_hashes
            /\ recs[i].kind = "Link" =>
                 /\ recs[i].payload = <<>>
                 /\ recs[i].size = 0
                 /\ \E j \in 1..(i - 1) :
                      /\ recs[j].kind = "Data"
                      /\ recs[j].name = recs[i].linkname
                      /\ sf[j].hash = sf[i].hash
       /\ pc = "done" =>
            \A i \in DOMAIN sf :
              /\ Cardinality({j \in SameHash(i) : recs[j].kind = "Data"}) = 1
              /\ Cardinality({j \in SameHash(i) : recs[j].kind = "Link"})
                   = Cardinality(SameHash(i)) - 1
              /\ recs[i].kind = "Data" => recs[i].payload = disk[sf[i].name]

\* three entries of identical content were written: one Data, two Links
C2_Witness ==
  /\ pc = "done"
  /\ Len(output.records) = 3
  /\ Cardinality(Links(output)) = 2

\* ------------------------------------------------------------------ C10
\* a proper prefix comes first, otherwise the first differing byte decides
HeaderBefore(a, b) ==
  \E k \in 1..Len(b) :
    /\ \A i \in 1..(k - 1) : i <= Len(a) /\ a[i] = b[i]
    /\ Len(a) = k - 1 \/ (Len(a) >= k /\ a[k] < b[k])

KeyBefore(x, y) ==
  \/ HeaderBefore(x.header, y.header)
  \/ x.header = y.header /\ ExtOrd(x.ext) < ExtOrd(y.ext)
  \/ x.header = y.header /\ x.ext = y.ext /\ x.size < y.size

SameKey(x, y) == x.header = y.header /\ x.ext = y.ext /\ x.size = y.size

\* C10: the planned order holds exactly the input files, ordered by (leading
\* bytes, extension, size) in that priority, entries of equal key in their
\* order of presentation; the records are written in that order, and an
\* entry is a Link iff an earlier entry has its content, its target being the
\* earliest such entry.  The record sequence is thus a function of the input.
C10_PlacementDeterministic ==
  output.exists =>
    LET recs == output.records
        sf == sorted_files
        Earlier(i) == {j \in 1..(i - 1) : disk[sf[j].name] = disk[sf[i].name]}
    IN /\ {sf[i].name : i \in DOMAIN sf} = InputFiles
       /\ Len(sf) = Cardinality(InputFiles)
       /\ \A i, j \in DOMAIN sf :
            i < j => \/ KeyBefore(sf[i], sf[j])
                     \/ /\ SameKey(sf[i], sf[j])
                        /\ Pos(selected, sf[i].name) < Pos(selected, sf[j].name)
       /\ \A i \in DOMAIN recs :
            /\ recs[i].name = sf[i].name
            /\ recs[i].kind = "Link" <=> Earlier(i) # {}
            /\ recs[i].kind = "Link" =>
                 \E j \in Earlier(i) :
                   /\ recs[i].linkname = sf[j].name
                   /\ \A k \in Earlier(i) : j <= k

\* two entries of equal key and different content, presented b.txt first,
\* were written b.txt first
C10_Witness ==
  /\ pc = "done"
  /\ \E i, j \in DOMAIN sorted_files :
       /\ i < j
       /\ SameKey(sorted_files[i], sorted_files[j])
       /\ sorted_files[i].hash # sorted_files[j].hash
       /\ sorted_files[i].name = "b.txt"
       /\ sorted_files[j].name = "a.txt"
       /\ output.records[i].name = "b.txt"
       /\ output.records[j].name = "a.txt"

\* ------------------------------------------------------------------- C5
\* the build failed in the write loop, after the magic was written
WriteLoopFailure == pc = "failed" /\ unreadable = {}

\* C5: after a build that failed once the magic was written, no file at the
\* output path starts with the valid magic.
C5_NoValidLookingLeftover ==
  WriteLoopFailure => ~(output.exists /\ output.magic = MAGIC_NUMBER)

\* ------------------------------------------------------------------- C8
\* C8: when the scan fails on a selected source (missing, or open/read
\* raises), the build still completes and every other selected source that is
\* readable is written to the container.
C8_ScanFailureIsPerEntry ==
  (/\ pc \in {"done", "failed"}
   /\ ~WriteLoopFailure
   /\ \E m \in Range(selected) : disk[m] = Missing \/ m \in unreadable)
  => /\ pc = "done"
     /\ \A n \in InputFiles \ unreadable : n \in RecordNames(output)

\* ------------------------------------------------------------------- C9
Shows100(st) == st.kind \in {"progress", "finished"} /\ st.pct = 1000

\* C9 as stated: every run ends showing 100%, shown exactly once.
C9_FinalHundredExactlyOnce ==
  pc \in {"done", "failed"} => Shows100(status) /\ n_final + n_cb100 = 1

\* C9 amended: a run that returns a container ends on the final status line,
\* emitted exactly once (progress_callback may have shown 100.0% before it);
\* a run that ends in an error never emits it and ends on the error message.
C9_FinalLineOnSuccessOnly ==
  /\ pc = "done" => status.kind = "finished" /\ status.pct = 1000 /\ n_final = 1
  /\ pc # "done" => n_final = 0
  /\ pc = "failed" => status.kind = "error"

\* a successful run in which progress_callback showed 100.0% and the final
\* line showed it again
C9_Witness == pc = "done" /\ n_cb100 = 1 /\ n_final = 1

\* ------------------------------------------------------------------- C1
\* the last call extracted every input file from the container just built
ExtractedAllInputs ==
  /\ BuiltContainer
  /\ lastOp.op = "extract"
  /\ lastOp.targets = InputFiles

\* C1 as stated: for every set of input files, extracting all names from the
\* built container succeeds and reproduces every input file.
C1_RoundTripAnySet ==
  ExtractedAllInputs =>
    /\ lastOp.ok
    /\ \A n \in InputFiles : extracted[n] = disk[n]

\* C1 amended: the same for every non-empty set of input files; nothing but
\* the input files is materialized.
C1_RoundTripNonEmpty ==
  (ExtractedAllInputs /\ InputFiles # {}) =>
    /\ lastOp.ok
    /\ lastOp.count = Cardinality(InputFiles)
    /\ \A n \in InputFiles : extracted[n] = disk[n]
    /\ \A n \in Names \ InputFiles : extracted[n] = Missing

\* three input files, two of them of identical non-empty content, went
\* through the round trip
C1_Witness ==
  /\ ExtractedAllInputs
  /\ Cardinality(InputFiles) = 3
  /\ Cardinality(Links(archive)) = 1
  /\ \E n \in InputFiles : Len(disk[n]) = MaxLen
  /\ lastOp.ok
  /\ \A n \in InputFiles : extracted[n] = disk[n]

\* ------------------------------------------------------------------- C3
\* the last call extracted exactly the Link member at position i
ExtractedOnlyLink(i) ==
  /\ BuiltContainer
  /\ lastOp.op = "extract"
  /\ archive.records[i].kind = "Link"
  /\ lastOp.targets = {archive.records[i].name}

\* C3: extracting only a member L that was written as a Link to C succeeds
\* and materializes the shared content under L and nothing under any other
\* name, C included.
C3_LinkAloneExtracts ==
  \A i \in (IF archive.exists THEN DOMAIN archive.records ELSE {}) :
    ExtractedOnlyLink(i) =>
      LET l == archive.records[i].name
          c == archive.records[i].linkname
      IN /\ lastOp.ok
         /\ lastOp.count = 1
         /\ extracted[l] = disk[c]
         /\ extracted[l] = disk[l]
         /\ \A n \in Names \ {l} : extracted[n] = Missing

\* a Link to a canonical entry of non-empty content was extracted alone
C3_Witness ==
  \E i \in (IF archive.exists THEN DOMAIN archive.records ELSE {}) :
    /\ ExtractedOnlyLink(i)
    /\ lastOp.ok
    /\ extracted[archive.records[i].name] # <<>>
    /\ extracted[archive.records[i].name] # Missing
    /\ extracted[archive.records[i].linkname] = Missing

\* ------------------------------------------------------------------- C4
\* C4: a file whose signature is not MAGIC_NUMBER is rejected by both calls
\* as an invalid format, and the bytes after the signature are not parsed.
C4_ForeignSignatureRejected ==
  (/\ archive.exists
   /\ archive.magic # MAGIC_NUMBER
   /\ lastOp.op \in {"list", "extract"})
  => /\ ~lastOp.ok
     /\ lastOp.msg = "Invalid File Format"
     /\ ~lastOp.parsed

\* ------------------------------------------------------------------- C6
\* the last call was an extraction from a container whose body can be read
ExtractedFromReadable ==
  /\ archive.exists
  /\ ParseError(archive) = ""
  /\ lastOp.op = "extract"

Absent(targets) == targets \ RecordNames(archive)

Present(targets) == targets \cap RecordNames(archive)

\* C6 as stated: a request naming at least one absent member is answered
\* with "no matching member".
C6_AbsentNameReported ==
  (ExtractedFromReadable /\ Absent(lastOp.targets) # {}) =>
    ~lastOp.ok /\ lastOp.msg = "No matching files found."

\* C6 amended: "no matching" is reported iff none of the requested names is
\* a member; otherwise the call succeeds, counts and materializes exactly
\* the requested names that are members, and says nothing of the absent ones.
C6_ReportedOnlyWhenNoneMatch ==
  ExtractedFromReadable =>
    /\ Present(lastOp.targets) = {} =>
         /\ ~lastOp.ok
         /\ lastOp.msg = "No matching files found."
         /\ extracted = EmptyDir
    /\ Present(lastOp.targets) # {} =>
         /\ lastOp.ok
         /\ lastOp.msg = "Extracted"
         /\ lastOp.count = Cardinality(Present(lastOp.targets))
         /\ \A n \in Names : extracted[n] # Missing <=> n \in Present(lastOp.targets)

\* a request with a present and an absent name was answered with success
C6_Witness ==
  /\ ExtractedFromReadable
  /\ Absent(lastOp.targets) # {}
  /\ Present(lastOp.targets) # {}
  /\ lastOp.ok
  /\ lastOp.count = 1

\* ------------------------------------------------------------------- C7
\* a call of extract_selected_files with no targets on a readable container
EmptyRequestStep ==
  /\ archive.exists
  /\ ParseError(archive) = ""
  /\ lastOp'.op = "extract"
  /\ lastOp'.targets = {}
  /\ <<lastOp, extracted>>' # <<lastOp, extracted>>

\* C7 as stated: the empty request succeeds and leaves the extracted output
\* as it was.
C7_EmptyRequestIsNoOp ==
  [][EmptyRequestStep => lastOp'.ok /\ extracted' = extracted]_vars

\* C7 amended: the empty request is answered with the failure "No matching
\* files found."; no member is materialized and the extracted output of
\* earlier calls is removed.
C7_EmptyRequestFailsAndClears ==
  [][EmptyRequestStep =>
       /\ ~lastOp'.ok
       /\ lastOp'.msg = "No matching files found."
       /\ lastOp'.count = 0
       /\ extracted' = EmptyDir]_vars

\* the empty request was made on a container with members
C7_Witness ==
  /\ BuiltContainer
  /\ archive.records # <<>>
  /\ lastOp.op = "extract"
  /\ lastOp.targets = {}
  /\ ~lastOp.ok
  /\ extracted = EmptyDir

====
